---- MODULE Spec2Model ----
(***************************************************************************)
(* Model of providers/powerdns/powerdnsProvider.go: the constructor newDSP *)
(* of the PowerDNS provider.  One call of newDSP is a run of the state     *)
(* machine below: the inputs (the flat configuration m and the metadata    *)
(* document) are fixed by Init, and each action is one step of the         *)
(* function body, in source order.                                         *)
(*                                                                         *)
(* Representation.  An optional value (a map entry that may be missing, a  *)
(* nil pointer, a nil interface) is a sequence of length 0 or 1.  A        *)
(* nameserver name is a sequence of one-character strings, so that         *)
(* ns[0:len(ns)-1] is computed on characters.  A PEM bundle is a sequence  *)
(* of blocks.                                                              *)
(***************************************************************************)
EXTENDS Naturals, Sequences, FiniteSets

VARIABLES m, metadata, pc, dsp, nss, i, transport, allocs, ret, trace

vars == <<m, metadata, pc, dsp, nss, i, transport, allocs, ret, trace>>

(* ------------------------------ bounds --------------------------------- *)

MaxNS == 2

MaxCertBlocks == 2

(* ------------------------- optional values ----------------------------- *)

None == <<>>

Some(x) == <<x>>

Opt(S) == {None} \cup {Some(x) : x \in S}

SeqsUpTo(S, n) == UNION {[1..k -> S] : k \in 0..n}

(* --------------------------- the flat map ------------------------------ *)

\* _, ok := m[k]
HasKey(cfg, k) == cfg[k] # None

\* m[k] for a string-valued key: the zero value "" when the key is missing.
MapGet(cfg, k) == IF cfg[k] = None THEN "" ELSE cfg[k][1]

\* []byte(m["cert"]): the PEM bundle, empty when the key is missing.
CertBytes(cfg) == IF cfg.cert = None THEN <<>> ELSE cfg.cert[1]

(* ---------------------------- error values ----------------------------- *)

NoErr == "nil"

ErrAPIKey == "PowerDNS API Key is required"

ErrAPIUrl == "PowerDNS API URL is required"

ErrServerName == "PowerDNS server name is required"

ErrJSON == "json: cannot unmarshal"

ErrNameserver == "models.ToNameservers: invalid nameserver"

ErrParseBool == "strconv.ParseBool: invalid syntax"

ErrCert == "unable to parse given certificate"

ErrClient == "pdns.New: client error"

(* ------------------------- the provider struct ------------------------- *)

\* dsp := &powerdnsProvider{}: every field at its zero value.
ZeroDSP ==
  [client |-> None, APIKey |-> "", APIUrl |-> "", ServerName |-> "",
   DefaultNS |-> <<>>, DNSSecOnCreate |-> FALSE, ZoneKind |-> "",
   SOAEditAPI |-> "", nameservers |-> <<>>]

(* ------------------------ the metadata document ------------------------ *)

\* A JSON value: t is its type; s, b and l hold a string, a boolean and an
\* array of strings (the other two at a fixed default).
JString(x) == [t |-> "string", s |-> x, b |-> FALSE, l |-> <<>>]

JBool(x) == [t |-> "bool", s |-> "", b |-> x, l |-> <<>>]

JArray(x) == [t |-> "array", s |-> "", b |-> FALSE, l |-> x]

\* The member names a document of the model may carry.
JSONKeys ==
  {"default_ns", "dnssec_on_create", "zone_kind", "soa_edit_api",
   "APIKey", "apiurl", "ServerName"}

\* json.RawMessage: no bytes at all, bytes that are not JSON, the literal
\* null, or an object whose members are given per member name.
EmptyMembers == [k \in JSONKeys |-> None]

RawEmpty == [kind |-> "empty", members |-> EmptyMembers]

RawMalformed == [kind |-> "malformed", members |-> EmptyMembers]

RawNull == [kind |-> "null", members |-> EmptyMembers]

RawObject(mem) == [kind |-> "object", members |-> mem]

\* encoding/json matches a member name to a struct field by the field's json
\* tag, or by its Go name when it has none, ignoring case.
Fold(k) ==
  CASE k = "APIKey" -> "apikey"
    [] k = "APIUrl" -> "apiurl"
    [] k = "ServerName" -> "servername"
    [] OTHER -> k

\* The exported fields of powerdnsProvider and the name each decodes from.
\* client and nameservers are unexported: no member reaches them.
FieldName(f) ==
  CASE f = "DefaultNS" -> "default_ns"
    [] f = "DNSSecOnCreate" -> "dnssec_on_create"
    [] f = "ZoneKind" -> "zone_kind"
    [] f = "SOAEditAPI" -> "soa_edit_api"
    [] OTHER -> f

\* The member of the document that decodes into field f, if any.
Member(doc, f) ==
  LET ks == {k \in JSONKeys : Fold(k) = Fold(FieldName(f)) /\ doc.members[k] # None}
  IN IF ks = {} THEN None ELSE doc.members[CHOOSE k \in ks : TRUE]

\* Does member value v fit a field of Go type ty?
Fits(v, ty) == v = None \/ v[1].t = "null" \/ v[1].t = ty

\* The field's value after decoding v into it: a missing member leaves it
\* alone, null leaves a string or bool alone and empties a slice.
SetString(old, v) == IF v # None /\ v[1].t = "string" THEN v[1].s ELSE old

SetBool(old, v) == IF v # None /\ v[1].t = "bool" THEN v[1].b ELSE old

SetSlice(old, v) ==
  IF v = None THEN old ELSE IF v[1].t = "array" THEN v[1].l ELSE <<>>

\* json.Unmarshal(metadata, dsp): the error and the struct afterwards.
Unmarshal(doc, d) ==
  IF doc.kind = "malformed" THEN [err |-> ErrJSON, dsp |-> d]
  ELSE IF doc.kind # "object" THEN [err |-> NoErr, dsp |-> d]
  ELSE IF ~ (/\ Fits(Member(doc, "APIKey"), "string")
             /\ Fits(Member(doc, "APIUrl"), "string")
             /\ Fits(Member(doc, "ServerName"), "string")
             /\ Fits(Member(doc, "DefaultNS"), "array")
             /\ Fits(Member(doc, "DNSSecOnCreate"), "bool")
             /\ Fits(Member(doc, "ZoneKind"), "string")
             /\ Fits(Member(doc, "SOAEditAPI"), "string"))
  THEN [err |-> ErrJSON, dsp |-> d]
  ELSE [err |-> NoErr,
        dsp |-> [d EXCEPT
          !.APIKey = SetString(@, Member(doc, "APIKey")),
          !.APIUrl = SetString(@, Member(doc, "APIUrl")),
          !.ServerName = SetString(@, Member(doc, "ServerName")),
          !.DefaultNS = SetSlice(@, Member(doc, "DefaultNS")),
          !.DNSSecOnCreate = SetBool(@, Member(doc, "DNSSecOnCreate")),
          !.ZoneKind = SetString(@, Member(doc, "ZoneKind")),
          !.SOAEditAPI = SetString(@, Member(doc, "SOAEditAPI"))]]

(* ------------------------ nameserver conversion ------------------------ *)

\* ns[0:len(ns)-1]; evaluated only for len(ns) > 0 (see StripNS).
StripLast(ns) == SubSeq(ns, 1, Len(ns) - 1)

HasTrailingDot(ns) == Len(ns) > 0 /\ ns[Len(ns)] = "."

\* models.ToNameservers: wraps each name, in order; rejects the list when an
\* entry is malformed, that is when it still ends in a dot.
ToNameservers(names) ==
  IF \E j \in 1..Len(names) : HasTrailingDot(names[j])
  THEN [err |-> ErrNameserver, list |-> <<>>]
  ELSE [err |-> NoErr, list |-> names]

(* ------------------------------ transport ------------------------------ *)

TrueSpellings == {"1", "t", "T", "TRUE", "true", "True"}

FalseSpellings == {"0", "f", "F", "FALSE", "false", "False"}

\* Variant of ParseBool that reads every unknown spelling as false.
ParseBoolLenient(str) == [val |-> str \in TrueSpellings, err |-> NoErr]

\* strconv.ParseBool: the value is false when the string is not accepted.
ParseBool(str) ==
  IF str \in TrueSpellings THEN [val |-> TRUE, err |-> NoErr]
  ELSE IF str \in FalseSpellings THEN [val |-> FALSE, err |-> NoErr]
  ELSE [val |-> FALSE, err |-> ErrParseBool]

\* The PEM blocks that are certificates; everything else is skipped.
Certificates == {"certA", "certB"}

\* Variant of AppendCertsFromPEM that gives up at the first block that is no
\* certificate.
AppendCertsFromPEMStrict(pem) ==
  LET pool == {pem[j] : j \in {n \in 1..Len(pem) : pem[n] \in Certificates}}
  IN [ok |-> pool # {} /\ \A j \in 1..Len(pem) : pem[j] \in Certificates,
      pool |-> pool]

\* x509.NewCertPool() followed by AppendCertsFromPEM: the pool, and whether
\* at least one certificate was added.
AppendCertsFromPEM(pem) ==
  LET pool == {pem[j] : j \in {n \in 1..Len(pem) : pem[n] \in Certificates}}
  IN [ok |-> pool # {}, pool |-> pool]

\* &http.Transport{TLSClientConfig: &tls.Config{}}: verification on, RootCAs
\* nil (the host's root set is used).
NewTransport == [InsecureSkipVerify |-> FALSE, RootCAs |-> None]

\* The host's root set, used by crypto/tls when RootCAs is nil.
SystemRoots == {"systemCA"}

\* The authorities a transport accepts.
TrustedRoots(t) == IF t.RootCAs = None THEN SystemRoots ELSE t.RootCAs[1]

(* ------------------------------- inputs -------------------------------- *)

\* Values of the required keys: missing, empty, or set.
RequiredValues(v) == {None, Some(""), Some(v)}

\* Values of skipTLSVerify: missing, empty, accepted spellings, others.
SkipValues == {None, Some(""), Some("1"), Some("false"), Some("T"), Some("yes")}

\* Values of cert: missing, or a bundle of certificate and non-certificate
\* blocks (the empty bundle included).
PEMBlocks == Certificates \cup {"garbage"}

CertValues == Opt(SeqsUpTo(PEMBlocks, MaxCertBlocks))

Configs ==
  [apiKey : RequiredValues("key"), apiUrl : RequiredValues("https://pdns/api"),
   serverName : RequiredValues("localhost"), skipTLSVerify : SkipValues,
   cert : CertValues]

\* A few configurations with the required keys set, one per TLS outcome.
ConfigsValid ==
  {c \in Configs :
     /\ c.apiKey = Some("key") /\ c.apiUrl = Some("https://pdns/api")
     /\ c.serverName = Some("localhost")
     /\ c.skipTLSVerify \in {None, Some("1")}
     /\ c.cert \in {None, Some(<<"certA">>)}}

\* Nameserver names: empty, no trailing dot, one trailing dot, two.
Names == {<<>>, <<"n">>, <<"n", ".">>, <<"n", ".", ".">>}

NSLists == SeqsUpTo(Names, MaxNS)

\* The objects of the model: every member missing or present, default_ns
\* also with a value of the wrong type.
Objects ==
  {RawObject(mem) : mem \in
    [default_ns : Opt({JArray(l) : l \in NSLists} \cup {JString("n.")}),
     dnssec_on_create : Opt({JBool(TRUE)}),
     zone_kind : Opt({JString("Master")}),
     soa_edit_api : Opt({JString("INCEPTION-INCREMENT")}),
     APIKey : Opt({JString(""), JString("key2")}),
     apiurl : Opt({JString(""), JString("https://other/api")}),
     ServerName : Opt({JString(""), JString("server2")})]}

Metadatas == {RawEmpty, RawMalformed, RawNull} \cup Objects

\* A few documents, one per outcome of decoding and nameserver conversion.
MetadatasFew ==
  {RawEmpty, RawMalformed}
    \cup {RawObject([EmptyMembers EXCEPT !.default_ns = Some(JArray(l))]) :
            l \in {<<<<"n", ".">>>>, <<<<"n", ".", ".">>>>, <<<<>>>>}}

(* ---------------------------- the function ----------------------------- *)

\* The calls of the model: every configuration with a few documents, and a
\* few configurations with every document.
Inputs == (Configs \X MetadatasFew) \cup (ConfigsValid \X Metadatas)

Init ==
  /\ \E in \in Inputs : m = in[1] /\ metadata = in[2]
  /\ pc = "apiKey"
  /\ dsp = ZeroDSP
  /\ nss = <<>>
  /\ i = 1
  /\ transport = None
  /\ allocs = 0
  /\ ret = [inst |-> "none", err |-> NoErr]
  /\ trace = <<>>

\* The statement at pc runs: it joins the trace once.
Visit == IF trace # <<>> /\ trace[Len(trace)] = pc THEN trace ELSE Append(trace, pc)

\* return inst, err
Return(inst, err) ==
  /\ pc' = "done"
  /\ ret' = [inst |-> inst, err |-> err]

Goto(next) ==
  /\ pc' = next
  /\ ret' = ret

\* dsp.APIKey = m["apiKey"]; if dsp.APIKey == "" { return nil, ... }
ReadAPIKey ==
  /\ pc = "apiKey"
  /\ dsp' = [dsp EXCEPT !.APIKey = MapGet(m, "apiKey")]
  /\ IF dsp'.APIKey = "" THEN Return("nil", ErrAPIKey) ELSE Goto("apiUrl")
  /\ trace' = Visit
  /\ UNCHANGED <<m, metadata, nss, i, transport, allocs>>

\* Variant of ReadAPIUrl without the emptiness check.
ReadAPIUrlUnchecked ==
  /\ pc = "apiUrl"
  /\ dsp' = [dsp EXCEPT !.APIUrl = MapGet(m, "apiUrl")]
  /\ Goto("serverName")
  /\ trace' = Visit
  /\ UNCHANGED <<m, metadata, nss, i, transport, allocs>>

\* dsp.APIUrl = m["apiUrl"]; if dsp.APIUrl == "" { return nil, ... }
ReadAPIUrl ==
  /\ pc = "apiUrl"
  /\ dsp' = [dsp EXCEPT !.APIUrl = MapGet(m, "apiUrl")]
  /\ IF dsp'.APIUrl = "" THEN Return("nil", ErrAPIUrl) ELSE Goto("serverName")
  /\ trace' = Visit
  /\ UNCHANGED <<m, metadata, nss, i, transport, allocs>>

\* dsp.ServerName = m["serverName"]; if dsp.ServerName == "" { return nil, ... }
ReadServerName ==
  /\ pc = "serverName"
  /\ dsp' = [dsp EXCEPT !.ServerName = MapGet(m, "serverName")]
  /\ IF dsp'.ServerName = "" THEN Return("nil", ErrServerName) ELSE Goto("metadata")
  /\ trace' = Visit
  /\ UNCHANGED <<m, metadata, nss, i, transport, allocs>>

\* if len(metadata) != 0 { err := json.Unmarshal(metadata, dsp); ... }
\* On an error nil is returned, so what a failed decoding left in dsp is
\* never seen.
LoadMetadata ==
  /\ pc = "metadata"
  /\ IF metadata.kind = "empty"
     THEN dsp' = dsp /\ Goto("defaultNS")
     ELSE LET r == Unmarshal(metadata, dsp)
          IN /\ dsp' = r.dsp
             /\ IF r.err # NoErr THEN Return("nil", r.err) ELSE Goto("defaultNS")
  /\ trace' = Visit
  /\ UNCHANGED <<m, metadata, nss, i, transport, allocs>>

\* for _, ns := range dsp.DefaultNS { nss = append(nss, ns[0:len(ns)-1]) }
\* One iteration; slicing the empty string with [0:-1] is a run-time panic.
StripNS ==
  /\ pc = "defaultNS"
  /\ i <= Len(dsp.DefaultNS)
  /\ IF Len(dsp.DefaultNS[i]) = 0
     THEN pc' = "panic" /\ UNCHANGED <<nss, i>>
     ELSE /\ nss' = Append(nss, StripLast(dsp.DefaultNS[i]))
          /\ i' = i + 1
          /\ pc' = pc
  /\ trace' = Visit
  /\ UNCHANGED <<m, metadata, dsp, transport, allocs, ret>>

\* Variant of ConvertNameservers that returns nil on an error.
ConvertNameserversNil ==
  /\ pc = "defaultNS"
  /\ i > Len(dsp.DefaultNS)
  /\ LET r == ToNameservers(nss)
     IN /\ dsp' = [dsp EXCEPT !.nameservers = r.list]
        /\ IF r.err # NoErr THEN Return("nil", r.err) ELSE Goto("skipTLSVerify")
  /\ trace' = Append(Visit, "toNameservers")
  /\ UNCHANGED <<m, metadata, nss, i, transport, allocs>>

\* dsp.nameservers, err = models.ToNameservers(nss); if err != nil { return dsp, err }
ConvertNameservers ==
  /\ pc = "defaultNS"
  /\ i > Len(dsp.DefaultNS)
  /\ LET r == ToNameservers(nss)
     IN /\ dsp' = [dsp EXCEPT !.nameservers = r.list]
        /\ IF r.err # NoErr THEN Return("dsp", r.err) ELSE Goto("skipTLSVerify")
  /\ trace' = Append(Visit, "toNameservers")
  /\ UNCHANGED <<m, metadata, nss, i, transport, allocs>>

\* Variant of Allocate that builds a fresh transport every time.
AllocateAlways == Some(NewTransport)

\* if client.Transport == nil { client.Transport = &http.Transport{...} }
Allocate == IF transport = None THEN Some(NewTransport) ELSE transport

Allocations == IF transport = None THEN allocs + 1 ELSE allocs

\* Variant of SkipTLSVerify that does not return on a parse error.
SkipTLSVerifyUnchecked ==
  /\ pc = "skipTLSVerify"
  /\ IF HasKey(m, "skipTLSVerify")
     THEN LET r == ParseBool(MapGet(m, "skipTLSVerify"))
          IN /\ transport' = Some([Allocate[1] EXCEPT !.InsecureSkipVerify = r.val])
             /\ allocs' = Allocations
     ELSE UNCHANGED <<transport, allocs>>
  /\ Goto("cert")
  /\ trace' = Visit
  /\ UNCHANGED <<m, metadata, dsp, nss, i>>

\* if _, ok := m["skipTLSVerify"]; ok { ... InsecureSkipVerify, err = ParseBool(...) }
SkipTLSVerify ==
  /\ pc = "skipTLSVerify"
  /\ IF HasKey(m, "skipTLSVerify")
     THEN LET r == ParseBool(MapGet(m, "skipTLSVerify"))
          IN /\ transport' = Some([Allocate[1] EXCEPT !.InsecureSkipVerify = r.val])
             /\ allocs' = Allocations
             /\ IF r.err # NoErr THEN Return("dsp", r.err) ELSE Goto("cert")
     ELSE UNCHANGED <<transport, allocs>> /\ Goto("cert")
  /\ trace' = Visit
  /\ UNCHANGED <<m, metadata, dsp, nss, i>>

\* if _, ok := m["cert"]; ok { ... roots.AppendCertsFromPEM ... RootCAs = roots }
Cert ==
  /\ pc = "cert"
  /\ IF HasKey(m, "cert")
     THEN LET r == AppendCertsFromPEM(CertBytes(m))
          IN /\ allocs' = Allocations
             /\ IF ~ r.ok
                THEN transport' = Allocate /\ Return("dsp", ErrCert)
                ELSE /\ transport' = Some([Allocate[1] EXCEPT !.RootCAs = Some(r.pool)])
                     /\ Goto("pdnsNew")
     ELSE UNCHANGED <<transport, allocs>> /\ Goto("pdnsNew")
  /\ trace' = Visit
  /\ UNCHANGED <<m, metadata, dsp, nss, i>>

\* pdns.New(WithBaseURL, WithAPIKeyAuthentication, WithHTTPClient): the
\* library either builds the client or reports an error (and no client).
PdnsNew(baseURL, apiKey, httpTransport) ==
  {[client |-> Some([baseURL |-> baseURL, apiKey |-> apiKey,
                     transport |-> httpTransport]), err |-> NoErr],
   [client |-> None, err |-> ErrClient]}

\* dsp.client, clientErr = pdns.New(...); return dsp, clientErr
AssembleClient ==
  /\ pc = "pdnsNew"
  /\ \E r \in PdnsNew(dsp.APIUrl, dsp.APIKey, transport) :
       /\ dsp' = [dsp EXCEPT !.client = r.client]
       /\ Return("dsp", r.err)
  /\ trace' = Visit
  /\ UNCHANGED <<m, metadata, nss, i, transport, allocs>>

Next ==
  \/ ReadAPIKey
  \/ ReadAPIUrl
  \/ ReadServerName
  \/ LoadMetadata
  \/ StripNS
  \/ ConvertNameservers
  \/ SkipTLSVerify
  \/ Cert
  \/ AssembleClient

Spec == Init /\ [][Next]_vars

(* ----------------------- properties of the inputs ---------------------- *)

Done == pc = "done"

\* The source order of the statements of newDSP.
Order ==
  <<"apiKey", "apiUrl", "serverName", "metadata", "defaultNS",
    "toNameservers", "skipTLSVerify", "cert", "pdnsNew">>

Ran(step) == \E j \in 1..Len(trace) : trace[j] = step

Missing(k) == m[k] = None \/ m[k] = Some("")

RequiredMissing == Missing("apiKey") \/ Missing("apiUrl") \/ Missing("serverName")

\* The document, if any, decodes.
MetadataDecodes ==
  /\ metadata.kind # "malformed"
  /\ \A k \in JSONKeys :
       metadata.members[k] # None =>
         metadata.members[k][1].t =
           (CASE k = "default_ns" -> "array"
              [] k = "dnssec_on_create" -> "bool"
              [] OTHER -> "string")

\* The default_ns list of the document (empty when it gives none).
ResolvedNS ==
  IF metadata.kind = "object" /\ metadata.members.default_ns # None
  THEN metadata.members.default_ns[1].l
  ELSE <<>>

\* Every default_ns name has a last character to strip, and none is left with
\* a trailing dot after stripping: the nameserver conversion succeeds.
NameserversConvert ==
  \A j \in 1..Len(ResolvedNS) :
    /\ ResolvedNS[j] # <<>>
    /\ ~ (Len(ResolvedNS[j]) >= 2 /\ ResolvedNS[j][Len(ResolvedNS[j]) - 1] = ".")

SkipPresent == m.skipTLSVerify # None

SkipAccepted == SkipPresent /\ m.skipTLSVerify[1] \in TrueSpellings \cup FalseSpellings

CertPresent == m.cert # None

\* The inputs pass every check before the skipTLSVerify step.
PassesUpToSkipTLSVerify == ~ RequiredMissing /\ MetadataDecodes /\ NameserversConvert

\* The inputs pass every check before the cert step.
PassesUpToCert == PassesUpToSkipTLSVerify /\ (SkipPresent => SkipAccepted)

\* The certificates among the blocks of the supplied bundle.
SuppliedCerts == {b \in {m.cert[1][j] : j \in 1..Len(m.cert[1])} : b \in {"certA", "certB"}}

(* ------------------------------- claims -------------------------------- *)

\* C1: when apiKey, apiUrl or serverName is missing or empty, whatever the
\* metadata document, newDSP never gets past the three checks, builds no
\* transport and no client, and returns nil with the error of the first
\* missing field in the order apiKey, apiUrl, serverName.
C1_MissingRequiredField ==
  RequiredMissing =>
    /\ pc \in {"apiKey", "apiUrl", "serverName", "done"}
    /\ dsp.client = None /\ transport = None
    /\ Done =>
         /\ ret.inst = "nil"
         /\ ret.err = (IF Missing("apiKey") THEN ErrAPIKey
                       ELSE IF Missing("apiUrl") THEN ErrAPIUrl
                       ELSE ErrServerName)

C1_Witness ==
  /\ Done /\ ~ Missing("apiKey") /\ m.apiUrl = None /\ m.serverName = Some("")
  /\ metadata.kind = "malformed"
  /\ ret = [inst |-> "nil", err |-> ErrAPIUrl]

\* C2 (as stated): whenever newDSP returns without an error, the instance's
\* API key, API URL and server name are all non-empty.
C2_CredentialsNonEmpty ==
  Done /\ ret.err = NoErr =>
    dsp.APIKey # "" /\ dsp.APIUrl # "" /\ dsp.ServerName # ""

\* C3 (as stated): the client is bound to the flat configuration's apiUrl and
\* apiKey, and the metadata document leaves the instance's API key, API URL
\* and server name as taken from the flat configuration.
C3_ClientBoundToFlatConfig ==
  /\ Ran("defaultNS") =>
       /\ dsp.APIKey = MapGet(m, "apiKey")
       /\ dsp.APIUrl = MapGet(m, "apiUrl")
       /\ dsp.ServerName = MapGet(m, "serverName")
  /\ dsp.client # None =>
       /\ dsp.client[1].baseURL = MapGet(m, "apiUrl")
       /\ dsp.client[1].apiKey = MapGet(m, "apiKey")

\* A name with its trailing dot, if it has one, removed.
TrimTrailingDot(ns) == IF HasTrailingDot(ns) THEN SubSeq(ns, 1, Len(ns) - 1) ELSE ns

\* C4 (as stated): when newDSP succeeds, the nameserver list has one entry
\* per default_ns entry, in order, each the default_ns name with its trailing
\* dot removed, and none ends with a dot.
C4_NameserversTrimmed ==
  Done /\ ret.err = NoErr =>
    /\ Len(dsp.nameservers) = Len(dsp.DefaultNS)
    /\ \A j \in 1..Len(dsp.nameservers) :
         /\ dsp.nameservers[j] = TrimTrailingDot(dsp.DefaultNS[j])
         /\ ~ HasTrailingDot(dsp.nameservers[j])

\* C5 (as stated): with the required fields valid and skipTLSVerify present,
\* an accepted spelling does not fail at this step and the transport's flag is
\* the parsed boolean; any other value makes newDSP fail with the
\* boolean-parse error before client assembly.
C5_AsStated ==
  Done /\ ~ RequiredMissing /\ SkipPresent =>
    IF SkipAccepted
    THEN /\ ret.err # ErrParseBool
         /\ transport # None =>
              transport[1].InsecureSkipVerify = (m.skipTLSVerify[1] \in TrueSpellings)
    ELSE ret.err = ErrParseBool /\ dsp.client = None

\* C5 (amended): with the required fields valid, the metadata document
\* decoded, the nameserver conversion succeeded and skipTLSVerify present, the
\* step is reached; an accepted spelling does not fail there and from then on
\* the transport's flag is the parsed boolean; any other value (the empty
\* string included) makes newDSP return the instance with the boolean-parse
\* error, without running the cert step or client assembly.
C5_SkipTLSVerify ==
  PassesUpToSkipTLSVerify /\ SkipPresent =>
    /\ Done => Ran("skipTLSVerify")
    /\ IF SkipAccepted
       THEN /\ ret.err # ErrParseBool
            /\ pc \in {"cert", "pdnsNew", "done"} =>
                 /\ transport # None
                 /\ transport[1].InsecureSkipVerify =
                      (m.skipTLSVerify[1] \in TrueSpellings)
       ELSE /\ pc \notin {"cert", "pdnsNew"}
            /\ Done =>
                 /\ ret = [inst |-> "dsp", err |-> ErrParseBool]
                 /\ dsp.client = None
                 /\ ~ Ran("cert") /\ ~ Ran("pdnsNew")

C5_Witness ==
  /\ Done /\ m.skipTLSVerify = Some("") /\ metadata.kind = "object"
  /\ Len(dsp.nameservers) = 1
  /\ ret.err = ErrParseBool

\* C6 (as stated): with the required fields valid and cert present, a value
\* from which no certificate parses makes newDSP fail with "unable to parse
\* given certificate" before client assembly; otherwise construction proceeds
\* and the transport trusts exactly the supplied certificates.
C6_AsStated ==
  Done /\ ~ RequiredMissing /\ CertPresent =>
    IF SuppliedCerts = {}
    THEN ret.err = ErrCert /\ dsp.client = None
    ELSE /\ ret.err # ErrCert
         /\ Ran("pdnsNew") => TrustedRoots(transport[1]) = SuppliedCerts

\* C6 (amended): with the required fields valid, the metadata document
\* decoded, the nameserver conversion succeeded, skipTLSVerify missing or an
\* accepted spelling, and cert present, the step is reached; a value from
\* which no certificate parses (the empty value included) makes newDSP return
\* the instance with "unable to parse given certificate", without client
\* assembly; otherwise construction proceeds to client assembly and the
\* transport trusts exactly the supplied certificates, not the host's roots.
C6_Cert ==
  PassesUpToCert /\ CertPresent =>
    /\ Done => Ran("cert")
    /\ IF SuppliedCerts = {}
       THEN /\ pc # "pdnsNew"
            /\ Done =>
                 /\ ret = [inst |-> "dsp", err |-> ErrCert]
                 /\ dsp.client = None /\ ~ Ran("pdnsNew")
       ELSE /\ ret.err # ErrCert
            /\ Done => Ran("pdnsNew")
            /\ pc \in {"pdnsNew", "done"} =>
                 /\ transport # None
                 /\ TrustedRoots(transport[1]) = SuppliedCerts
                 /\ transport[1].RootCAs # None

C6_Witness ==
  /\ Done /\ m.cert = Some(<<"garbage", "certB">>)
  /\ dsp.client # None
  /\ dsp.client[1].transport[1].RootCAs = Some({"certB"})

\* C7: no transport exists before a TLS key is met and at most one is ever
\* allocated; the HTTP client handed to client assembly has no transport
\* exactly when neither skipTLSVerify nor cert is present; when both are
\* present the one transport carries the parsed flag and the supplied pool.
C7_LazyTransport ==
  /\ allocs <= 1
  /\ (transport = None) <=> (allocs = 0)
  /\ pc \in {"apiKey", "apiUrl", "serverName", "metadata", "defaultNS", "skipTLSVerify"}
       => transport = None
  /\ pc = "pdnsNew" => ((transport = None) <=> (~ SkipPresent /\ ~ CertPresent))
  /\ dsp.client # None =>
       /\ (dsp.client[1].transport = None) <=> (~ SkipPresent /\ ~ CertPresent)
       /\ SkipPresent /\ CertPresent =>
            /\ dsp.client[1].transport[1].InsecureSkipVerify =
                 (m.skipTLSVerify[1] \in TrueSpellings)
            /\ dsp.client[1].transport[1].RootCAs = Some(SuppliedCerts)

C7_Witness ==
  /\ dsp.client # None /\ m.skipTLSVerify = Some("T") /\ m.cert = Some(<<"certA">>)
  /\ allocs = 1
  /\ dsp.client[1].transport = Some([InsecureSkipVerify |-> TRUE, RootCAs |-> Some({"certA"})])

\* C8: on failure the result's shape is fixed by the failing step: nil for a
\* missing required field or a metadata decoding failure; the instance for a
\* nameserver rejection, a skipTLSVerify or certificate parse failure and a
\* client assembly failure; and unless the failing step is client assembly
\* the instance has no client.
C8_FailureShape ==
  Done /\ ret.err # NoErr =>
    LET step == trace[Len(trace)] IN
    /\ step \in {"apiKey", "apiUrl", "serverName", "metadata"} <=> ret.inst = "nil"
    /\ step \in {"toNameservers", "skipTLSVerify", "cert", "pdnsNew"} <=> ret.inst = "dsp"
    /\ ret.err \in {ErrAPIKey, ErrAPIUrl, ErrServerName, ErrJSON} <=> ret.inst = "nil"
    /\ ret.err \in {ErrNameserver, ErrParseBool, ErrCert, ErrClient} <=> ret.inst = "dsp"
    /\ step # "pdnsNew" => dsp.client = None

C8_Witness ==
  /\ Done /\ ret = [inst |-> "dsp", err |-> ErrNameserver]
  /\ dsp.DefaultNS = <<<<"n", ".">>, <<"n", ".", ".">>>>
  /\ dsp.client = None

\* The error of the earliest check the inputs fail, in source order (NoErr
\* when they pass every check before client assembly).
EarliestFailure ==
  IF Missing("apiKey") THEN ErrAPIKey
  ELSE IF Missing("apiUrl") THEN ErrAPIUrl
  ELSE IF Missing("serverName") THEN ErrServerName
  ELSE IF ~ MetadataDecodes THEN ErrJSON
  ELSE IF ~ NameserversConvert THEN ErrNameserver
  ELSE IF SkipPresent /\ ~ SkipAccepted THEN ErrParseBool
  ELSE IF CertPresent /\ SuppliedCerts = {} THEN ErrCert
  ELSE NoErr

\* The statement that reports an error.
StepOf(err) ==
  CASE err = ErrAPIKey -> "apiKey"
    [] err = ErrAPIUrl -> "apiUrl"
    [] err = ErrServerName -> "serverName"
    [] err = ErrJSON -> "metadata"
    [] err = ErrNameserver -> "toNameservers"
    [] err = ErrParseBool -> "skipTLSVerify"
    [] err = ErrCert -> "cert"
    [] OTHER -> "pdnsNew"

\* C9: the statements run in source order, and newDSP returns at the first
\* check that fails: the error returned is that of the earliest check the
\* inputs fail, and no statement after that check has run.
C9_FirstFailureWins ==
  /\ trace = SubSeq(Order, 1, Len(trace))
  /\ Done =>
       /\ IF EarliestFailure # NoErr
          THEN ret.err = EarliestFailure
          ELSE ret.err \in {NoErr, ErrClient}
       /\ trace[Len(trace)] = StepOf(ret.err)

C9_Witness ==
  /\ Done /\ m.skipTLSVerify = Some("yes") /\ m.cert = Some(<<"garbage">>)
  /\ ret.err = ErrParseBool
  /\ trace = SubSeq(Order, 1, 7)

\* C10 (as stated): with valid required fields and a well-formed document
\* whose default_ns is any list of strings, newDSP never aborts with a
\* run-time fault while stripping the last character of an entry.
C10_NoRuntimeFault == pc # "panic"

====
